---------------------------- MODULE Spec2Model ----------------------------
(***************************************************************************)
(* Finch 2.0 drawing simulator (finchdraw.py): the differential-drive      *)
(* integrator, the motor API, the one-shot render guard and the file       *)
(* writing path, as a state machine over one Finch instance.               *)
(*                                                                         *)
(* Numbers.  The program computes in binary floating point; the model      *)
(* computes in fixed point on integers, with sign-symmetric rounding       *)
(* (Quot), so that rounding is abstracted and every quantity keeps its     *)
(* physical unit:                                                          *)
(*   time      milliseconds               (TimeScale ticks per second)     *)
(*   angle     1/RadScale radian          (RadScale = 7162)                *)
(*   length    1/LenScale centimetre      (LenScale = 5 * RadScale)        *)
(*   sin, cos  1/TrigScale                                                 *)
(* RadScale is chosen so that one degree is a whole number of angle ticks: *)
(* (pi/180) * 7162 = 125.0005, hence Radians(d) = 125 * d (pi is taken as  *)
(* 180 * 125 / 7162 = 3.141581).  The thresholds 1e-9 and 1e-12 of         *)
(* _advance are far below one tick (OmegaEps, VEps).                       *)
(***************************************************************************)
EXTENDS Integers, Sequences, FiniteSets, TLC

VARIABLES
  pose,         \* self._pose: [x, y, th]
  path,         \* self._path: sequence of <<x, y>>
  closed,       \* self._closed
  pil,          \* whether "from PIL import Image, ImageDraw" succeeds in this process
  renderCalls,  \* number of times _write_svg_png was entered
  svgAttempts,  \* number of open() calls on self._svg_path
  svgWritten,   \* the vector file was opened and written completely
  pngAttempts,  \* number of open() calls on self._png_path
  pngWritten,   \* the raster file was opened and written completely
  triggers,     \* number of calls of _maybe_render so far (close, atexit, direct)
  earlyTrigger, \* the first _maybe_render call found fewer than 2 points
  io,           \* what the file system and encoder answered to _write_svg_png
  exited,       \* the process has run its atexit hooks
  exc,          \* "none", or the call that propagated an exception to its caller
  log           \* one record per motor command issued, oldest first

vars == <<pose, path, closed, pil, renderCalls, svgAttempts, svgWritten,
          pngAttempts, pngWritten, triggers, earlyTrigger, io, exited, exc, log>>

renderVars == <<closed, renderCalls, svgAttempts, svgWritten, pngAttempts,
                pngWritten, triggers, earlyTrigger, io>>

---------------------------------------------------------------------------
(* Bounds of the exploration *)

\* motor commands per run of Spec
MaxCmds == 2

\* motor commands per run of SpecScenario
MaxScenarioCmds == 2

\* motor commands per run of SpecTrip
MaxLegs == 3

\* close() and direct _maybe_render() calls per run
MaxTriggers == 2

---------------------------------------------------------------------------
(* Units and constants *)

WHEELBASE_CM == 10

SubstepMs == 20

TimeScale == 1000

RadScale == 7162

LenScale == 35810

DegTicks == 125

TrigScale == 1000

\* 1e-9 rad/s in angle ticks per second, rounded up: the only angular velocity
\* the model can represent below the threshold of line 60 is 0.
OmegaEps == 1

\* 1e-12 cm/s in length ticks per second, rounded down (line 65)
VEps == 0

LenPerRad == LenScale \div RadScale

---------------------------------------------------------------------------
(* Arithmetic *)

Abs(a) == IF a < 0 THEN -a ELSE a

Max(a, b) == IF a >= b THEN a ELSE b

\* a / b rounded to the nearest integer, ties away from zero; like IEEE
\* division it is symmetric in sign: Quot(-a, b) = -Quot(a, b).
Quot(a, b) ==
  LET q == (2 * Abs(a) + Abs(b)) \div (2 * Abs(b))
  IN  IF (a < 0) /= (b < 0) THEN -q ELSE q

\* math.ceil(a / b) for b > 0
Ceil(a, b) == -((-a) \div b)

\* float(cm) in length ticks
ToLen(cm) == cm * LenScale

\* math.radians(deg) in angle ticks
Radians(deg) == deg * DegTicks

HalfTurn == Radians(180)

FullTurn == Radians(360)

\* math.sin for an angle u in [0, pi]: Bhaskara's rational approximation
\* 4u(pi-u) / (5pi^2/4 - u(pi-u)), exact at 0, pi/6, pi/2, 5pi/6 and pi.
SinHalf(u) ==
  LET p == u * (HalfTurn - u)
      d == 5 * ((HalfTurn * HalfTurn) \div 4) - p
  IN  Quot(4 * p, Quot(d, TrigScale))

\* math.sin(t), scaled by TrigScale
Sin(t) ==
  LET r == t % FullTurn
  IN  IF r <= HalfTurn THEN SinHalf(r) ELSE -SinHalf(r - HalfTurn)

\* math.cos(t), scaled by TrigScale
Cos(t) == Sin(t + HalfTurn \div 2)

---------------------------------------------------------------------------
(* Differential-drive integration: Finch._advance *)

Pose(x, y, th) == [x |-> x, y |-> y, th |-> th]

AppendPointFront(pts, x, y) == <<<<x, y>>>> \o pts

\* self._path.append((x, y))
AppendPoint(pts, x, y) == Append(pts, <<x, y>>)

StepsFloor(dt) == Max(1, dt \div SubstepMs)

\* steps = max(1, int(math.ceil(dt / 0.02)))
Steps(dt) == Max(1, Ceil(dt, SubstepMs))

\* One pass of the loop body: the pose after a substep of h milliseconds.
Substep(x, y, th, v, omega, h) ==
  IF Abs(omega) < OmegaEps
  THEN Pose(x + Quot(Quot(v * h, TimeScale) * Cos(th), TrigScale),
            y + Quot(Quot(v * h, TimeScale) * Sin(th), TrigScale),
            th)
  ELSE LET th_new == th + Quot(omega * h, TimeScale)
           R == IF Abs(v) > VEps THEN Quot(v * RadScale, omega) ELSE 0
       IN  Pose(x + Quot(R * (Sin(th_new) - Sin(th)), TrigScale),
                y - Quot(R * (Cos(th_new) - Cos(th)), TrigScale),
                th_new)

RECURSIVE AdvanceLoop(_, _, _, _, _, _)
\* for _ in range(steps): <substep>; self._path.append((x, y))
\* The n passes are run as the first n \div 2 followed by the rest, which is
\* the same sequence of substeps and appends; binding the first part's result
\* makes it a value before the second part starts.
AdvanceLoop(n, p, pts, v, omega, h) ==
  IF n = 0
  THEN [pose |-> p, path |-> pts]
  ELSE IF n = 1
  THEN LET s == Substep(p.x, p.y, p.th, v, omega, h)
       IN  [pose |-> s, path |-> AppendPoint(pts, s.x, s.y)]
  ELSE CHOOSE r \in { AdvanceLoop(n - n \div 2, first.pose, first.path, v, omega, h) :
                      first \in { AdvanceLoop(n \div 2, p, pts, v, omega, h) } } : TRUE

\* The body of _advance after its guard.
Integrate(p, pts, vl, vr, dt) ==
  LET v == Quot(vl + vr, 2)
      omega == Quot(vr - vl, WHEELBASE_CM * LenPerRad)
      steps == Steps(dt)
      h == Quot(dt, steps)
  IN  AdvanceLoop(steps, p, pts, v, omega, h)

AdvanceNoGuard(p, pts, vl, vr, dt) == Integrate(p, pts, vl, vr, dt)

\* Finch._advance(vl_cm_s, vr_cm_s, dt)
Advance(p, pts, vl, vr, dt) ==
  IF dt <= 0 THEN [pose |-> p, path |-> pts] ELSE Integrate(p, pts, vl, vr, dt)

---------------------------------------------------------------------------
(* Motor API: what each command hands to _advance, if anything *)

NoCall == [called |-> FALSE, vl |-> 0, vr |-> 0, dt |-> 0]

Call(vl, vr, dt) == [called |-> TRUE, vl |-> vl, vr |-> vr, dt |-> dt]

\* Finch.wheels(left_cm_s, right_cm_s, duration); has = FALSE is duration=None
wheelsCall(left_cm_s, right_cm_s, has, duration) ==
  IF ~has THEN NoCall ELSE Call(ToLen(left_cm_s), ToLen(right_cm_s), duration)

setMoveCallUnsigned(direction, distance_cm, speed_cm_s) ==
  LET speed == Abs(speed_cm_s)
  IN  IF speed <= 0 THEN NoCall
      ELSE Call(ToLen(speed), ToLen(speed),
                Quot(Abs(distance_cm) * TimeScale, speed))

\* Finch.setMove(direction, distance_cm, speed_cm_s)
setMoveCall(direction, distance_cm, speed_cm_s) ==
  LET distance == distance_cm * (IF direction = "F" THEN 1 ELSE -1)
      speed == Abs(speed_cm_s)
  IN  IF speed <= 0 THEN NoCall
      ELSE LET duration == Quot(Abs(distance) * TimeScale, speed)
               vlr == ToLen(speed) * (IF distance >= 0 THEN 1 ELSE -1)
           IN  Call(vlr, vlr, duration)

setTurnCallSameSign(direction, degrees_in, deg_per_s_in) ==
  LET degrees == degrees_in * (IF direction = "L" THEN 1 ELSE -1)
      deg_per_s == Abs(deg_per_s_in)
  IN  IF deg_per_s <= 0 THEN NoCall
      ELSE LET omega == Radians(deg_per_s)
               duration == Quot(Abs(Radians(degrees)) * TimeScale, Abs(omega))
               s == Quot(Abs(omega) * WHEELBASE_CM * LenPerRad, 2)
           IN  Call(s, s, duration)

setTurnCallMixedUnits(direction, degrees_in, deg_per_s_in) ==
  LET degrees == degrees_in * (IF direction = "L" THEN 1 ELSE -1)
      deg_per_s == Abs(deg_per_s_in)
  IN  IF deg_per_s <= 0 THEN NoCall
      ELSE LET omega_sign == IF degrees >= 0 THEN 1 ELSE -1
               omega == Radians(deg_per_s) * omega_sign
               duration == Quot(Abs(Radians(degrees)) * TimeScale,
                                deg_per_s * RadScale)
               s == Quot(Abs(omega) * WHEELBASE_CM * LenPerRad, 2)
           IN  Call(IF degrees >= 0 THEN -s ELSE s,
                    IF degrees >= 0 THEN s ELSE -s, duration)

\* Finch.setTurn(direction, degrees, deg_per_s)
setTurnCall(direction, degrees_in, deg_per_s_in) ==
  LET degrees == degrees_in * (IF direction = "L" THEN 1 ELSE -1)
      deg_per_s == Abs(deg_per_s_in)
  IN  IF deg_per_s <= 0 THEN NoCall
      ELSE LET omega_sign == IF degrees >= 0 THEN 1 ELSE -1
               omega == Radians(deg_per_s) * omega_sign
               duration == Quot(Abs(Radians(degrees)) * TimeScale, Abs(omega))
               s == Quot(Abs(omega) * WHEELBASE_CM * LenPerRad, 2)
               vl == IF degrees >= 0 THEN -s ELSE s
               vr == IF degrees >= 0 THEN s ELSE -s
           IN  Call(vl, vr, duration)

---------------------------------------------------------------------------
(* Rendering: Finch._png_bytes, Finch._write_svg_png, Finch._maybe_render *)

\* What the file system and the raster encoder answer during one render:
\* svgOk: open/write of the vector file succeeds; encOk: drawing and PNG
\* encoding succeed; pngOk: open/write of the raster file succeeds.  An answer
\* that is never asked for (after a failed vector write) is left TRUE.
Outcomes ==
  { [svgOk |-> FALSE, encOk |-> TRUE,  pngOk |-> TRUE],
    [svgOk |-> TRUE,  encOk |-> FALSE, pngOk |-> TRUE],
    [svgOk |-> TRUE,  encOk |-> TRUE,  pngOk |-> FALSE],
    [svgOk |-> TRUE,  encOk |-> TRUE,  pngOk |-> TRUE] }

NoOutcome == [svgOk |-> TRUE, encOk |-> TRUE, pngOk |-> TRUE]

\* The answers a call of _maybe_render can get: none is asked for when the
\* render is skipped, and the encoder and raster file are not reached without PIL.
Consulted(c, n, hasPil) ==
  IF c \/ n < 2 THEN {NoOutcome}
  ELSE IF hasPil THEN Outcomes
  ELSE {o \in Outcomes : o.encOk /\ o.pngOk}

\* Finch._png_bytes(): "None" without PIL, "raise" when drawing or encoding
\* fails, "bytes" otherwise.
PngBytes(hasPil, encOk) ==
  IF ~hasPil THEN "None" ELSE IF encOk THEN "bytes" ELSE "raise"

WriteSvgPngNoNoneCheck(hasPil, o) ==
  IF ~o.svgOk
  THEN [raised |-> TRUE, svgA |-> 1, svgW |-> FALSE, pngA |-> 0, pngW |-> FALSE]
  ELSE LET b == PngBytes(hasPil, o.encOk)
       IN  [raised |-> FALSE, svgA |-> 1, svgW |-> TRUE,
            pngA |-> IF b /= "raise" THEN 1 ELSE 0,
            pngW |-> b = "bytes" /\ o.pngOk]

\* Finch._write_svg_png(): the vector write is outside the inner try, the
\* raster part inside it.  svgA, pngA count the open() calls made.
WriteSvgPng(hasPil, o) ==
  IF ~o.svgOk
  THEN [raised |-> TRUE, svgA |-> 1, svgW |-> FALSE, pngA |-> 0, pngW |-> FALSE]
  ELSE LET b == PngBytes(hasPil, o.encOk)
       IN  [raised |-> FALSE, svgA |-> 1, svgW |-> TRUE,
            pngA |-> IF b = "bytes" THEN 1 ELSE 0,
            pngW |-> b = "bytes" /\ o.pngOk]

\* _maybe_render returned without entering _write_svg_png
Skipped(c) ==
  [closed |-> c, entered |-> 0, raised |-> FALSE,
   svgA |-> 0, svgW |-> FALSE, pngA |-> 0, pngW |-> FALSE]

\* _maybe_render entered _write_svg_png, which did w
Rendered(w, raised) ==
  [closed |-> TRUE, entered |-> 1, raised |-> raised,
   svgA |-> w.svgA, svgW |-> w.svgW, pngA |-> w.pngA, pngW |-> w.pngW]

MaybeRenderNoFlag(c, n, hasPil, o) ==
  IF c THEN Skipped(c)
  ELSE IF n < 2 THEN Skipped(c)
  ELSE [Rendered(WriteSvgPng(hasPil, o), FALSE) EXCEPT !.closed = c]

MaybeRenderLateFlag(c, n, hasPil, o) ==
  IF c THEN Skipped(TRUE)
  ELSE IF n < 2 THEN Skipped(c)
  ELSE Rendered(WriteSvgPng(hasPil, o), FALSE)

MaybeRenderNoTry(c, n, hasPil, o) ==
  IF c THEN Skipped(TRUE)
  ELSE IF n < 2 THEN Skipped(TRUE)
  ELSE LET w == WriteSvgPng(hasPil, o) IN Rendered(w, w.raised)

\* Finch._maybe_render(): c is self._closed, n is len(self._path)
MaybeRender(c, n, hasPil, o) ==
  IF c THEN Skipped(TRUE)
  ELSE IF n < 2 THEN Skipped(TRUE)
  ELSE Rendered(WriteSvgPng(hasPil, o), FALSE)

---------------------------------------------------------------------------
(* Inputs of the commands *)

\* <<direction, distance_cm, speed_cm_s>>
MoveInputs ==
  { <<"F", 3, 100>>, <<"B", 3, 100>>, <<"F", 1, -100>>, <<"F", 0, 10>>,
    <<"B", 5, 0>> }

\* <<direction, degrees, deg_per_s>>
TurnInputs ==
  { <<"L", 360, 18000>>, <<"R", 90, 3000>>, <<"R", 45, -2250>>, <<"L", 0, 30>>,
    <<"R", 90, 0>> }

\* <<left_cm_s, right_cm_s, duration given, duration in ms>>
WheelInputs ==
  { <<0, 0, TRUE, 40>>, <<-2, -4, TRUE, 45>>, <<5, 5, FALSE, 0>>,
    <<5, 5, TRUE, 0>>, <<5, 5, TRUE, -20>> }

\* The usage example of the module header (lines 5-6) and its reverses.
ScenarioMoves == { <<"F", 20, 10>>, <<"B", 20, 10>> }

ScenarioTurns == { <<"L", 90, 30>>, <<"R", 90, 30>> }

ScenarioWheels == { <<10, 10, TRUE, 2000>> }

\* Out-and-back moves from headings that turns and arcs have changed.
TripMoves == { <<"F", 3, 100>>, <<"B", 3, 100>>, <<"B", 0, 10>> }

TripTurns == { <<"R", 45, -2250>> }

TripWheels == { <<-2, -4, TRUE, 45>> }

---------------------------------------------------------------------------
(* The state machine *)

\* Finch.__init__ (the atexit registration is the AtExit action)
Init ==
  /\ pose = Pose(0, 0, 0)
  /\ path = << <<0, 0>> >>
  /\ closed = FALSE
  /\ pil \in BOOLEAN
  /\ renderCalls = 0
  /\ svgAttempts = 0
  /\ svgWritten = FALSE
  /\ pngAttempts = 0
  /\ pngWritten = FALSE
  /\ triggers = 0
  /\ earlyTrigger = FALSE
  /\ io = NoOutcome
  /\ exited = FALSE
  /\ exc = "none"
  /\ log = << >>

\* A motor command op with arguments a that makes the _advance call c (or none).
Motion(op, a, c) ==
  \E r \in { IF c.called THEN Advance(pose, path, c.vl, c.vr, c.dt)
              ELSE [pose |-> pose, path |-> path] } :
    /\ pose' = r.pose
    /\ path' = r.path
    /\ log' = Append(log, [op |-> op, a |-> a, called |-> c.called,
                           vl |-> c.vl, vr |-> c.vr, dt |-> c.dt,
                           pre |-> pose, post |-> r.pose,
                           n0 |-> Len(path), n1 |-> Len(r.path)])
    /\ exc' = "none"
    /\ UNCHANGED <<renderVars, pil, exited>>

\* Finch.setMove with arguments from S, at most K motor commands per run
SetMoveIn(S, K) ==
  /\ ~exited
  /\ Len(log) < K
  /\ \E a \in S : Motion("setMove", a, setMoveCall(a[1], a[2], a[3]))

\* Finch.setTurn with arguments from S
SetTurnIn(S, K) ==
  /\ ~exited
  /\ Len(log) < K
  /\ \E a \in S : Motion("setTurn", a, setTurnCall(a[1], a[2], a[3]))

\* Finch.wheels with arguments from S
WheelsIn(S, K) ==
  /\ ~exited
  /\ Len(log) < K
  /\ \E a \in S : Motion("wheels", a, wheelsCall(a[1], a[2], a[3], a[4]))

SetMove == SetMoveIn(MoveInputs, MaxCmds)

SetTurn == SetTurnIn(TurnInputs, MaxCmds)

Wheels == WheelsIn(WheelInputs, MaxCmds)

ScenarioSetMove == SetMoveIn(ScenarioMoves, MaxScenarioCmds)

ScenarioSetTurn == SetTurnIn(ScenarioTurns, MaxScenarioCmds)

ScenarioDrive == WheelsIn(ScenarioWheels, MaxScenarioCmds)

TripSetMove == SetMoveIn(TripMoves, MaxLegs)

TripSetTurn == SetTurnIn(TripTurns, MaxLegs)

TripDrive == WheelsIn(TripWheels, MaxLegs)

\* One call of _maybe_render by the caller named who.
Trigger(who) ==
  \E o \in Consulted(closed, Len(path), pil) :
    LET m == MaybeRender(closed, Len(path), pil, o)
    IN  /\ closed' = m.closed
        /\ renderCalls' = renderCalls + m.entered
        /\ svgAttempts' = svgAttempts + m.svgA
        /\ svgWritten' = (svgWritten \/ m.svgW)
        /\ pngAttempts' = pngAttempts + m.pngA
        /\ pngWritten' = (pngWritten \/ m.pngW)
        /\ triggers' = triggers + 1
        /\ earlyTrigger' = IF triggers = 0 THEN Len(path) < 2 ELSE earlyTrigger
        /\ io' = IF m.entered = 1 THEN o ELSE io
        /\ exc' = IF m.raised THEN who ELSE "none"
        /\ UNCHANGED <<pose, path, pil, log>>

\* Finch.close()
Close ==
  /\ ~exited
  /\ triggers < MaxTriggers
  /\ Trigger("close")
  /\ UNCHANGED exited

\* a direct call of Finch._maybe_render()
DirectRender ==
  /\ ~exited
  /\ triggers < MaxTriggers
  /\ Trigger("_maybe_render")
  /\ UNCHANGED exited

\* the atexit hook registered by __init__: the last thing the process does
AtExit ==
  /\ ~exited
  /\ Trigger("atexit")
  /\ exited' = TRUE

\* setLED, setBeak, setTail, playTone, stopAll, getDistance, getLine, getLight,
\* getTemperature, getOrientation, getAcceleration: no effect on the object
Stubs ==
  /\ ~exited
  /\ exc' = "none"
  /\ UNCHANGED <<pose, path, pil, renderVars, exited, log>>

\* Finch._repr_png_(): an encoding failure of _png_bytes propagates
ReprPng ==
  /\ ~exited
  /\ \E encOk \in BOOLEAN :
       exc' = IF PngBytes(pil, encOk) = "raise" THEN "_repr_png_" ELSE "none"
  /\ UNCHANGED <<pose, path, pil, renderVars, exited, log>>

\* Finch._repr_mimebundle_(): a failure of _png_bytes is caught
ReprMimebundle ==
  /\ ~exited
  /\ exc' = "none"
  /\ UNCHANGED <<pose, path, pil, renderVars, exited, log>>

\* Finch.show(): every failure is caught
Show ==
  /\ ~exited
  /\ exc' = "none"
  /\ UNCHANGED <<pose, path, pil, renderVars, exited, log>>

Next ==
  \/ SetMove
  \/ SetTurn
  \/ Wheels
  \/ Close
  \/ DirectRender
  \/ AtExit
  \/ Stubs
  \/ ReprPng
  \/ ReprMimebundle
  \/ Show

NextScenario ==
  \/ ScenarioSetMove
  \/ ScenarioSetTurn
  \/ ScenarioDrive
  \/ Close
  \/ DirectRender
  \/ AtExit
  \/ Stubs
  \/ ReprPng
  \/ ReprMimebundle
  \/ Show

NextTrip ==
  \/ TripSetMove
  \/ TripSetTurn
  \/ TripDrive
  \/ Close
  \/ DirectRender
  \/ AtExit
  \/ Stubs
  \/ ReprPng
  \/ ReprMimebundle
  \/ Show

\* One Finch driven with the short commands of MoveInputs, TurnInputs, WheelInputs
Spec == Init /\ [][Next]_vars

\* One Finch driven with the commands of the usage example
SpecScenario == Init /\ [][NextScenario]_vars

\* One Finch driven out and back along changed headings
SpecTrip == Init /\ [][NextTrip]_vars

---------------------------------------------------------------------------
(* Vocabulary of the properties *)

IsPrefix(s, t) == Len(s) <= Len(t) /\ SubSeq(t, 1, Len(s)) = s

Origin == <<0, 0>>

\* The step appends a motor command to the log; Cmd is that command.
NewCmd == Len(log') = Len(log) + 1

Cmd == log'[Len(log')]

TriggerNames == {"close", "atexit", "_maybe_render"}

\* The number of points command e appended.
Gained(e) == e.n1 - e.n0

---------------------------------------------------------------------------
(* C1 *)

\* C1: whatever motor commands and render triggers (close, the atexit hook, a
\* direct _maybe_render call) are interleaved, _write_svg_png is entered at
\* most once; _closed, once true, stays true; and a trigger that finds _closed
\* true writes nothing.
C1_RenderAtMostOnce ==
  /\ [](renderCalls <= 1)
  /\ [][closed => closed']_vars
  /\ [][(closed /\ triggers' = triggers + 1) =>
          UNCHANGED <<renderCalls, svgAttempts, svgWritten, pngAttempts,
                      pngWritten>>]_vars

\* Two triggers have fired around motor commands and the body ran once.
C1_Witness ==
  /\ renderCalls = 1
  /\ triggers >= 2
  /\ Len(log) >= 1
  /\ closed

---------------------------------------------------------------------------
(* C2 *)

---------------------------------------------------------------------------
(* C3 *)

\* The commands C3 as stated calls no-ops: a duration <= 0 (or omitted, for
\* wheels) or a speed argument <= 0.
StatedNoOp(e) ==
  \/ /\ e.op = "wheels"
     /\ (~e.a[3] \/ e.a[4] <= 0 \/ e.a[1] <= 0 \/ e.a[2] <= 0)
  \/ /\ e.op \in {"setMove", "setTurn"}
     /\ (e.a[3] <= 0 \/ (e.called /\ e.dt <= 0))

\* The commands that are no-ops: wheels without a duration or with one <= 0,
\* setMove and setTurn with speed 0 or with distance (degrees) 0.
ActualNoOp(e) ==
  \/ /\ e.op = "wheels"
     /\ (~e.a[3] \/ e.a[4] <= 0)
  \/ /\ e.op \in {"setMove", "setTurn"}
     /\ (e.a[3] = 0 \/ e.a[2] = 0)

\* C3 as stated: every setMove, setTurn or wheels call with a duration <= 0
\* (or omitted) or a speed argument <= 0 leaves pose and path unchanged.
C3_NoOpOnNonPositive ==
  [][(NewCmd /\ StatedNoOp(Cmd)) => (pose' = pose /\ path' = path)]_vars

\* C3 amended: every wheels call whose duration is omitted or <= 0, and every
\* setMove or setTurn call whose speed argument is 0 or whose distance
\* (degrees) is 0, leaves pose and path unchanged.
C3_NoOpLaw ==
  [][(NewCmd /\ ActualNoOp(Cmd)) => (pose' = pose /\ path' = path)]_vars

\* A no-op command has been issued to a robot that had already moved.
C3_Witness ==
  /\ Len(log) >= 2
  /\ Len(path) > 1
  /\ log[1].n1 > log[1].n0
  /\ ActualNoOp(log[2])

---------------------------------------------------------------------------
(* C4 *)

\* C4: the path is never empty and starts at the origin, and every operation
\* leaves the path it started with as a prefix of the resulting path.
C4_PathAppendOnly ==
  /\ [](Len(path) >= 1 /\ path[1] = Origin)
  /\ [][IsPrefix(path, path')]_vars

\* Two commands have extended the path and a render trigger has run.
C4_Witness ==
  /\ Len(log) = 2
  /\ log[1].n1 > log[1].n0
  /\ log[2].n1 > log[2].n0
  /\ path[Len(path)] /= Origin
  /\ triggers >= 1

---------------------------------------------------------------------------
(* C5 *)

---------------------------------------------------------------------------
(* C6 *)

\* Commands i and i+1 are setMove(forward, d, s) then setMove(backward, d, s)
\* with d >= 0 and s > 0.
OutAndBack(i) ==
  /\ i + 1 \in DOMAIN log
  /\ log[i].op = "setMove"
  /\ log[i + 1].op = "setMove"
  /\ log[i].a[1] = "F"
  /\ log[i + 1].a[1] = "B"
  /\ log[i].a[2] = log[i + 1].a[2]
  /\ log[i].a[3] = log[i + 1].a[3]
  /\ log[i].a[2] >= 0
  /\ log[i].a[3] > 0

\* C6: setMove(forward, d, s) followed by setMove(backward, d, s) returns the
\* pose to where it started, neither move changes the heading, and both legs
\* append the same number of points.
C6_RoundTrip ==
  \A i \in DOMAIN log :
    OutAndBack(i) =>
      /\ log[i + 1].post = log[i].pre
      /\ log[i].post.th = log[i].pre.th
      /\ Gained(log[i + 1]) = Gained(log[i])

\* An out-and-back made along a heading that is no multiple of 90 degrees,
\* away from the origin.
C6_Witness ==
  \E i \in DOMAIN log :
    /\ OutAndBack(i)
    /\ log[i].pre.th % Radians(90) /= 0
    /\ log[i].post /= log[i].pre
    /\ Gained(log[i]) = 2

---------------------------------------------------------------------------
(* C7 *)

\* new robot -> setMove(forward, 20, 10) -> setTurn(left, 90, 30)
ScenarioRun ==
  /\ Len(log) >= 2
  /\ log[1].op = "setMove"
  /\ log[1].a = <<"F", 20, 10>>
  /\ log[2].op = "setTurn"
  /\ log[2].a = <<"L", 90, 30>>

\* What C7 says of the scenario apart from the pivot's duration: 2.0 s are
\* handed to the integrator for the move, the final heading is 90 degrees,
\* and the position is (20, 0) before and after the turn.
ScenarioPose ==
  /\ log[1].called
  /\ log[2].called
  /\ log[1].dt = 2 * TimeScale
  /\ log[1].post.x = ToLen(20)
  /\ log[1].post.y = 0
  /\ log[2].post.x = ToLen(20)
  /\ log[2].post.y = 0
  /\ log[2].post.th = Radians(90)

\* C7 as stated: the pivot's duration is about 1.047 s (within 5 per cent).
C7_ScenarioAsStated ==
  ScenarioRun =>
    /\ ScenarioPose
    /\ Abs(1000 * log[2].dt - 1047 * TimeScale) <= 50 * TimeScale

\* C7 amended: the pivot's duration is 3.0 s (90 degrees at 30 degrees per
\* second); the rest as stated.
C7_Scenario ==
  ScenarioRun =>
    /\ ScenarioPose
    /\ log[2].dt = 3 * TimeScale

\* The scenario has run: 100 points for the move, 150 for the pivot.
C7_Witness ==
  /\ ScenarioRun
  /\ Len(log) = 2
  /\ Len(path) = 251

---------------------------------------------------------------------------
(* C8 *)

\* C8: close(), a direct _maybe_render() and the exit hook never propagate an
\* exception, whatever the file system and the encoder answer; and when the
\* vector write succeeded the vector file stays written whatever happened to
\* the raster part.
C8_TeardownNeverRaises ==
  /\ exc \notin TriggerNames
  /\ (renderCalls >= 1 /\ io.svgOk) => svgWritten

\* The exit hook rendered, the vector write succeeded and the encoding failed.
C8_Witness ==
  /\ exited
  /\ renderCalls = 1
  /\ pil
  /\ io.svgOk
  /\ ~io.encOk
  /\ svgWritten
  /\ ~pngWritten

---------------------------------------------------------------------------
(* C9 *)

\* C9: an _advance call with dt > 0 appends N points, N being the least
\* integer >= 1 with N * 0.02 s >= dt; the points are one per substep (equally
\* spaced on a straight run); the pose position then equals the last point
\* appended; a call with dt <= 0 appends nothing.
C9_PointsPerCall ==
  \A i \in DOMAIN log :
    LET e == log[i]
        N == Gained(e)
    IN  e.called =>
          IF e.dt > 0
          THEN /\ N >= 1
               /\ N * SubstepMs >= e.dt
               /\ (N - 1) * SubstepMs < e.dt
               /\ path[e.n1] = <<e.post.x, e.post.y>>
               /\ (e.vl = e.vr =>
                     \A k \in (e.n0 + 1)..e.n1 :
                       /\ N * (path[k][1] - path[k - 1][1]) = e.post.x - e.pre.x
                       /\ N * (path[k][2] - path[k - 1][2]) = e.post.y - e.pre.y)
          ELSE N = 0

\* Calls of 10 ms (one point) and of 45 ms (three points) have been made.
C9_Witness ==
  /\ Len(log) = 2
  /\ \E i \in DOMAIN log : log[i].called /\ log[i].dt = 10 /\ Gained(log[i]) = 1
  /\ \E i \in DOMAIN log : log[i].called /\ log[i].dt = 45 /\ Gained(log[i]) = 3

---------------------------------------------------------------------------
(* C10 *)

\* C10: a render trigger that fires while the path has fewer than 2 points
\* writes no file and does not raise, yet consumes the guard: no later
\* trigger writes either file, while motor commands keep extending the path.
C10_EarlyTriggerConsumesGuard ==
  /\ [](earlyTrigger =>
          /\ closed
          /\ renderCalls = 0
          /\ svgAttempts = 0
          /\ pngAttempts = 0
          /\ ~svgWritten
          /\ ~pngWritten
          /\ exc \notin TriggerNames)
  /\ [][(earlyTrigger /\ NewCmd /\ Cmd.called /\ Cmd.dt > 0) =>
          (Len(path') > Len(path) /\ pose' = Cmd.post)]_vars

\* After an early trigger the robot moved, and two more triggers fired.
C10_Witness ==
  /\ earlyTrigger
  /\ Len(path) > 1
  /\ pose.x /= 0
  /\ triggers >= 3
  /\ exited

=============================================================================
